---- MODULE Spec2Model ----
\* State-machine model of the WMS terminal dashboard (package models,
\* dashboard.go): the Bubble Tea Model, its Update handlers, the commands it
\* dispatches (timers, weather and moon fetches) and the files it writes.
EXTENDS Bags, FiniteSets, Integers, Sequences, TLC

\* ---------------------------------------------------------------- bounds
\* Longest text the user types into an edit buffer.
MaxLen == 1
\* Most weather fetch commands in flight at once.
MaxInFlight == 2

\* ------------------------------------------------------- program constants
\* ViewMode iota constants.
ViewWeather == 0
ViewMoon == 1
ViewSolar == 2
ViewSettings == 3
ViewLocationInput == 4
ViewAPIKeyInput == 5

\* Seconds a status message stays up (time.Since(statusTimer) > 3*time.Second).
StatusWindow == 3
\* time.Since(...) is kept in whole seconds and saturates one past the window:
\* the handlers only ever compare it with StatusWindow.
AgeCap == StatusWindow + 1
\* Delay of tea.Tick in refreshCmd, in minutes.
RefreshMinutes == 5
\* Number of entries in the settings menu.
SettingsOptions == 4

ProviderWeatherAPI == "WeatherAPI"
ProviderOpenMeteo == "OpenMeteo"

\* ------------------------------------------------------------------ inputs
\* Keys whose msg.String() is one character long; "a" stands for the
\* printable keys that have no binding.
SingleCharKeys == {"q", "1", "2", "3", "r", "u", "t", "s", "a"}

\* A printable key outside ASCII: "e-acute" stands for the key whose
\* msg.String() is the two-byte string of U+00E9.
NonASCIIKey == "e-acute"
\* len(msg.String()): the length in bytes of the string of key k
KeyStringLen(k) ==
    CASE k \in SingleCharKeys -> 1
      [] k = NonASCIIKey -> 2
      [] k = "tab" -> 3
      [] k = "up" -> 2
      [] k = "down" -> 4
      [] k = "enter" -> 5
      [] k = "esc" -> 3
      [] k = "ctrl+c" -> 6
      [] k = "shift+tab" -> 9
      [] k = "backspace" -> 9

\* Text is a sequence of one-character strings; "" is <<>>.
\* A Go pointer or error is a sequence of length at most one; nil is <<>>.
Nil == <<>>
Some(x) == <<x>>

\* Locations the IP geolocation service may report.
DetectedLocations == {<<"i">>}
\* Readings a provider may report for a location.
Readings == {1, 2}

VARIABLES
    \* the Model value held by the Bubble Tea runtime
    m,
    \* commands handed to the runtime and not yet answered
    weatherCmds, moonCmds, tickArmed, tickDue, refreshPending, refreshDelay,
    \* TRUE once tea.Quit has been returned
    quit,
    \* wms.toml and the .env secret file
    configFile, envFile,
    \* history: the last WeatherMsg processed
    lastWeatherMsg

cmdVars == <<weatherCmds, moonCmds, tickArmed, tickDue, refreshPending,
             refreshDelay, quit>>
fileVars == <<configFile, envFile>>
vars == <<m, cmdVars, fileVars, lastWeatherMsg>>

Min(a, b) == IF a < b THEN a ELSE b

\* ------------------------------------------------------------ configuration
\* config.Config, with the fields the dashboard reads or writes.
Config(provider, location, mode, units, timeFormat, interval, key) ==
    [WeatherProvider |-> provider, Location |-> location,
     LocationMode |-> mode, Units |-> units, TimeFormat |-> timeFormat,
     RefreshInterval |-> interval, WeatherAPIKey |-> key]

\* TomlOf as if LocationMode were tagged toml:"-" too
TomlOf_NoLocationMode(cfg) ==
    [WeatherProvider |-> cfg.WeatherProvider, Location |-> cfg.Location,
     Units |-> cfg.Units, TimeFormat |-> cfg.TimeFormat,
     RefreshInterval |-> cfg.RefreshInterval]

\* What toml.Encode writes for a Config: WeatherAPIKey is tagged toml:"-".
TomlOf(cfg) ==
    [WeatherProvider |-> cfg.WeatherProvider, Location |-> cfg.Location,
     LocationMode |-> cfg.LocationMode, Units |-> cfg.Units,
     TimeFormat |-> cfg.TimeFormat, RefreshInterval |-> cfg.RefreshInterval]

\* config.DefaultConfig ("N" stands for "New York")
DefaultConfig ==
    Config(ProviderWeatherAPI, <<"N">>, "ip", "metric", "24", 5, <<>>)

\* config.ValidateConfig: invalid values are replaced by defaults
ValidateConfig(cfg) ==
    [cfg EXCEPT
        !.WeatherProvider =
            IF @ # ProviderWeatherAPI /\ @ # ProviderOpenMeteo
            THEN ProviderWeatherAPI ELSE @,
        !.LocationMode = IF @ # "ip" /\ @ # "manual" THEN "ip" ELSE @,
        !.Units = IF @ \notin {"metric", "imperial"} THEN "metric" ELSE @,
        !.TimeFormat = IF @ \notin {"12", "24"} THEN "24" ELSE @,
        !.RefreshInterval = IF @ < 1 \/ @ > 60 THEN 5 ELSE @]

\* A config file that toml.Unmarshal rejects
Unparsable == [syntaxError |-> TRUE]

\* What toml.Unmarshal makes of the file content toml: a key that is absent
\* leaves the zero value of its field
TomlDecode(toml) ==
    LET field(k, zero) == IF k \in DOMAIN toml THEN toml[k] ELSE zero
    IN Config(field("WeatherProvider", ""), field("Location", <<>>),
              field("LocationMode", ""), field("Units", ""),
              field("TimeFormat", ""), field("RefreshInterval", 0), <<>>)

\* config.ReadConfig: file is the content of the config file (Nil when it
\* does not exist), envKey the value of WEATHER_API_KEY.  Returns the
\* configuration and the content of the file afterwards.
ReadConfig(file, envKey) ==
    IF file = Nil
    THEN [config |-> DefaultConfig, file |-> Some(TomlOf(DefaultConfig))]
    ELSE IF "syntaxError" \in DOMAIN file[1]
    THEN [config |-> DefaultConfig, file |-> file]
    ELSE [config |-> ValidateConfig(
                        [TomlDecode(file[1]) EXCEPT !.WeatherAPIKey = envKey]),
          file |-> file]

\* The command-line flags of main, with their defaults
Flags(location, units, timeFormat, refresh) ==
    [location |-> location, units |-> units, timeFormat |-> timeFormat,
     refresh |-> refresh]
DefaultFlags == Flags(<<>>, "metric", "24", 5)

\* main: the configuration handed to InitialModelWithConfig
mainConfig(file, envKey, flags) ==
    LET cfg == ReadConfig(file, envKey).config
        c1 == IF flags.location # <<>>
              THEN [cfg EXCEPT !.Location = flags.location] ELSE cfg
        c2 == IF flags.units # ""
              THEN [c1 EXCEPT !.Units = flags.units] ELSE c1
        c3 == IF flags.timeFormat # ""
              THEN [c2 EXCEPT !.TimeFormat = flags.timeFormat] ELSE c2
    IN IF flags.refresh > 0
       THEN [c3 EXCEPT !.RefreshInterval = flags.refresh] ELSE c3


\* ------------------------------------------------------------------ moon
\* Moon ages and phase thresholds are in units of 1/AgeUnit day, so that the
\* decimal constants of the source are integers.
AgeUnit == 100000

\* Go's int(x) for x in age units: truncation toward zero to whole days
int(x) == IF x >= 0 THEN x \div AgeUnit ELSE -((-x) \div AgeUnit)

\* components.Moon, with the fields the dashboard's state depends on
\* (Illumination and Icon are display values derived from the same data).
\* components.NewMoon
NewMoon ==
    [Phase |-> "Loading...", NextPhase |-> "...", DaysToNext |-> 0,
     MoonName |-> "", IsLoading |-> TRUE, Error |-> Nil]

\* const moonCycle in calculateNextPhase
moonCycle == 2953000

\* The phases table of calculateNextPhase
phases ==
    << [name |-> "New Moon", age |-> 0],
       [name |-> "Waxing Crescent", age |-> 369000],
       [name |-> "First Quarter", age |-> 738000],
       [name |-> "Waxing Gibbous", age |-> 1107000],
       [name |-> "Full Moon", age |-> 1477000],
       [name |-> "Waning Gibbous", age |-> 1846000],
       [name |-> "Last Quarter", age |-> 2215000],
       [name |-> "Waning Crescent", age |-> 2584000] >>

\* calculateNextPhase without the floor of one day
calculateNextPhase_NoFloor(currentAge) ==
    LET later == {i \in 1..Len(phases) : currentAge < phases[i].age}
    IN IF later # {}
       THEN LET i == CHOOSE j \in later : \A l \in later : j <= l
            IN [name |-> phases[i].name,
                days |-> int(phases[i].age - currentAge)]
       ELSE [name |-> "New Moon", days |-> int(moonCycle - currentAge)]

\* components.calculateNextPhase: the loop returns at the first entry of the
\* table whose age is above currentAge
calculateNextPhase(currentAge) ==
    LET later == {i \in 1..Len(phases) : currentAge < phases[i].age}
        floor1(d) == IF d = 0 THEN 1 ELSE d
    IN IF later # {}
       THEN LET i == CHOOSE j \in later : \A l \in later : j <= l
            IN [name |-> phases[i].name,
                days |-> floor1(int(phases[i].age - currentAge))]
       ELSE [name |-> "New Moon",
             days |-> floor1(int(moonCycle - currentAge))]

\* api.CalculateNextPhase: the same computation, with an unused second
\* argument
CalculateNextPhase(currentAge, currentPhase) ==
    LET later == {i \in 1..Len(phases) : currentAge < phases[i].age}
        floor1(d) == IF d = 0 THEN 1 ELSE d
    IN IF later # {}
       THEN LET i == CHOOSE j \in later : \A l \in later : j <= l
            IN [name |-> phases[i].name,
                days |-> floor1(int(phases[i].age - currentAge))]
       ELSE [name |-> "New Moon",
             days |-> floor1(int(moonCycle - currentAge))]

\* An element of a MoonResponse, with the fields UpdateWithData reads
MoonData(phase, age, names) == [Phase |-> phase, Age |-> age, Moon |-> names]

\* components.calculateMoonPhaseLocally, as a function of the moon age it
\* derives from time.Now() (the fractional part of the lunar cycle position
\* times the cycle length 29.53059)
calculateMoonPhaseLocally(moonAge) ==
    LET phaseName ==
            CASE moonAge < 184566 -> "New Moon"
              [] moonAge < 553699 -> "Waxing Crescent"
              [] moonAge < 922831 -> "First Quarter"
              [] moonAge < 1291963 -> "Waxing Gibbous"
              [] moonAge < 1661096 -> "Full Moon"
              [] moonAge < 2030228 -> "Waning Gibbous"
              [] moonAge < 2399361 -> "Last Quarter"
              [] moonAge < 2768493 -> "Waning Crescent"
              [] OTHER -> "New Moon"
    IN [data |-> Some(<<MoonData(phaseName, moonAge, <<"Calculated">>)>>),
        err |-> Nil]

\* FetchMoonData that reports a non-200 status to its caller
FetchMoonData_ReportStatus(outcome, moonAge) ==
    CASE outcome.kind = "status" ->
            [data |-> Nil, err |-> Some("moon API returned status")]
      [] outcome.kind \in {"transport", "body", "decode"} ->
            calculateMoonPhaseLocally(moonAge)
      [] OTHER -> [data |-> Some(outcome.response), err |-> Nil]

\* components.FetchMoonData: outcome is what the HTTP request did (transport
\* error, non-200 status, unreadable body, undecodable body, or a decoded
\* response), moonAge the age of the moon at the time of the call.
FetchMoonData(outcome, moonAge) ==
    CASE outcome.kind \in {"transport", "status", "body", "decode"} ->
            calculateMoonPhaseLocally(moonAge)
      [] OTHER -> [data |-> Some(outcome.response), err |-> Nil]

\* The tea.Msg the closure of fetchMoonDataCmd returns
fetchMoonDataMsg(outcome, moonAge) ==
    LET r == FetchMoonData(outcome, moonAge)
    IN IF r.err # Nil
       THEN [Data |-> Nil, Error |-> r.err]
       ELSE [Data |-> r.data, Error |-> Nil]

\* Moon.UpdateWithData
UpdateWithData(moon, data) ==
    LET m1 == IF Len(data) > 0
              THEN LET currentMoon == data[1]
                       next == calculateNextPhase(currentMoon.Age)
                   IN [moon EXCEPT
                          !.Phase = currentMoon.Phase,
                          !.MoonName = IF Len(currentMoon.Moon) > 0
                                       THEN currentMoon.Moon[1]
                                       ELSE moon.MoonName,
                          !.NextPhase = next.name,
                          !.DaysToNext = next.days]
              ELSE moon
    IN [m1 EXCEPT !.IsLoading = FALSE, !.Error = Nil]

\* Moon.UpdateWithError
UpdateWithError(moon, err) ==
    [Phase |-> "Error loading data", NextPhase |-> "Unknown",
     DaysToNext |-> 0, MoonName |-> "", IsLoading |-> FALSE, Error |-> err]

\* ------------------------------------------------------------ commands
\* A tea.Cmd is a sequence of primitive commands; nil is <<>>, tea.Batch
\* concatenates.
tickCmd == <<[type |-> "tick"]>>
refreshCmd == <<[type |-> "refresh", minutes |-> RefreshMinutes]>>
fetchMoonDataCmd == <<[type |-> "fetchMoon"]>>
Quit == <<[type |-> "quit"]>>
\* The closure captures cfg by value; these are the fields it reads.
FetchWeatherWithConfigCmd(cfg) ==
    <<[type |-> "fetchWeather",
       cfg |-> [LocationMode |-> cfg.LocationMode, Location |-> cfg.Location,
                WeatherProvider |-> cfg.WeatherProvider,
                WeatherAPIKey |-> cfg.WeatherAPIKey]]>>

\* What Update returns: the new Model, the command, and the files it wrote.
Result(mm, cmd) == [m |-> mm, cmd |-> cmd, cfgWrite |-> Nil, keyWrite |-> Nil]

\* InitialModelWithConfig
InitialModelWithConfig(cfg) ==
    [moon |-> NewMoon,
     viewMode |-> ViewWeather,
     refreshing |-> FALSE,
     statusMsg |-> "",
     sinceStatusTimer |-> 0,
     sinceStatusSet |-> 0,
     config |-> cfg,
     stormyWeather |-> Nil,
     weatherError |-> Nil,
     isEditingLocation |-> FALSE,
     locationInput |-> cfg.Location,
     settingsCursor |-> 0,
     isEditingAPIKey |-> FALSE,
     apiKeyInput |-> cfg.WeatherAPIKey]

\* Model.Init
ModelInit(mm) ==
    tickCmd \o refreshCmd \o FetchWeatherWithConfigCmd(mm.config)
        \o fetchMoonDataCmd

\* m.statusMsg = s (sinceStatusSet is the history of that assignment)
SetStatus(mm, s) == [mm EXCEPT !.statusMsg = s, !.sinceStatusSet = 0]
\* m.statusTimer = time.Now()
SetStatusTimer(mm) == [mm EXCEPT !.sinceStatusTimer = 0]

\* ------------------------------------------------------------ file writes
\* config.WriteConfig: ok is whether os.Create and Encode succeeded.
WriteConfig(cfg, ok) ==
    [err |-> IF ok THEN Nil ELSE Some("failed to write config"),
     write |-> IF ok THEN Some(TomlOf(cfg)) ELSE Nil]

\* config.SaveAPIKey: stores the key in the .env file of the config directory.
SaveAPIKey(key, ok) ==
    [err |-> IF ok THEN Nil ELSE Some("failed to save API key"),
     write |-> IF ok THEN Some(key) ELSE Nil]

\* ------------------------------------------------------------ key handlers
\* Model.updateMainView
updateMainView(mm, k) ==
    CASE k = "tab" ->
            Result([mm EXCEPT !.viewMode = (mm.viewMode + 1) % 3], <<>>)
      [] k = "shift+tab" ->
            Result([mm EXCEPT !.viewMode = (mm.viewMode - 1 + 3) % 3], <<>>)
      [] OTHER -> Result(mm, <<>>)

\* SettingsCursorMove that stops at the ends of the list
SettingsCursorMove_NoWrap(mm, k) ==
    CASE k = "up" ->
            [mm EXCEPT !.settingsCursor =
                IF mm.settingsCursor = 0 THEN 0 ELSE mm.settingsCursor - 1]
      [] k = "down" ->
            [mm EXCEPT !.settingsCursor =
                Min(mm.settingsCursor + 1, SettingsOptions - 1)]
      [] OTHER -> mm

\* The cursor navigation at the end of Model.updateSettingsView
SettingsCursorMove(mm, k) ==
    CASE k = "up" ->
            [mm EXCEPT !.settingsCursor =
                (mm.settingsCursor - 1 + SettingsOptions) % SettingsOptions]
      [] k = "down" ->
            [mm EXCEPT !.settingsCursor =
                (mm.settingsCursor + 1) % SettingsOptions]
      [] OTHER -> mm

\* SaveAndExit that reports success whatever WriteConfig returned
SaveAndExit_SwallowError(mm, ok) ==
    LET w == WriteConfig(mm.config, ok)
    IN [Result([SetStatus(mm, "Config saved!") EXCEPT !.viewMode = ViewWeather],
               <<>>)
            EXCEPT !.cfgWrite = w.write]

\* Model.updateSettingsView, case "enter", option 3 (Save and Exit)
SaveAndExit(mm, ok) ==
    LET w == WriteConfig(mm.config, ok)
        m1 == IF w.err # Nil
              THEN SetStatus(mm, "Error saving config")
              ELSE SetStatus(mm, "Config saved!")
    IN [Result([m1 EXCEPT !.viewMode = ViewWeather], <<>>)
            EXCEPT !.cfgWrite = w.write]

\* OpenLocationInput that opens the editor in either location mode
OpenLocationInput_AnyMode(mm) ==
    Result(SetStatus([mm EXCEPT !.viewMode = ViewLocationInput,
                                !.isEditingLocation = TRUE],
                     "Enter new location"), <<>>)

\* Model.updateSettingsView, case "enter", option 1 (Set Manual Location)
OpenLocationInput(mm) ==
    IF mm.config.LocationMode = "manual"
    THEN Result(SetStatus([mm EXCEPT !.viewMode = ViewLocationInput,
                                     !.isEditingLocation = TRUE],
                          "Enter new location"), <<>>)
    ELSE Result(mm, <<>>)

\* OpenAPIKeyInput that sets the edit flag and leaves the view mode alone
OpenAPIKeyInput_FlagOnly(mm) ==
    Result(SetStatus([mm EXCEPT !.isEditingAPIKey = TRUE],
                     "Enter WeatherAPI key"), <<>>)

\* Model.updateSettingsView, case "enter", option 2 (Set API Key)
OpenAPIKeyInput(mm) ==
    Result(SetStatus([mm EXCEPT !.viewMode = ViewAPIKeyInput,
                                !.isEditingAPIKey = TRUE],
                     "Enter WeatherAPI key"), <<>>)

\* Model.updateSettingsView, case "enter"
SettingsEnter(mm, ok) ==
    CASE mm.settingsCursor = 0 ->
            LET m1 == IF mm.config.LocationMode = "ip"
                      THEN SetStatus([mm EXCEPT !.config.LocationMode = "manual"],
                                     "Location: Manual")
                      ELSE SetStatus([mm EXCEPT !.config.LocationMode = "ip"],
                                     "Location: IP Detection")
            IN Result(m1, FetchWeatherWithConfigCmd(m1.config))
      [] mm.settingsCursor = 1 -> OpenLocationInput(mm)
      [] mm.settingsCursor = 2 -> OpenAPIKeyInput(mm)
      [] mm.settingsCursor = 3 -> SaveAndExit(mm, ok)
      [] OTHER -> Result(mm, <<>>)

\* Model.updateSettingsView
updateSettingsView(mm, k, ok) ==
    CASE k = "esc" ->
            Result(SetStatus([mm EXCEPT !.viewMode = ViewWeather], ""), <<>>)
      [] k = "enter" -> SettingsEnter(mm, ok)
      [] OTHER -> Result(SettingsCursorMove(mm, k), <<>>)

\* LocationEsc that commits the buffer before leaving
LocationEsc_Commits(mm) ==
    Result(SetStatusTimer(SetStatus(
               [mm EXCEPT !.config.Location = mm.locationInput,
                          !.isEditingLocation = FALSE,
                          !.viewMode = ViewSettings],
               "Cancelled")), <<>>)

\* Model.updateLocationInputView, case "esc"
LocationEsc(mm) ==
    Result(SetStatusTimer(SetStatus(
               [mm EXCEPT !.isEditingLocation = FALSE,
                          !.viewMode = ViewSettings],
               "Cancelled")), <<>>)

\* LocationEnter whose fetch is built from the configuration before the
\* assignment
LocationEnter_StaleFetch(mm) ==
    LET m1 == SetStatusTimer(SetStatus(
                  [mm EXCEPT !.config.Location = mm.locationInput,
                             !.isEditingLocation = FALSE,
                             !.viewMode = ViewSettings],
                  "Location saved!"))
    IN Result(m1, FetchWeatherWithConfigCmd(mm.config))

\* Model.updateLocationInputView, case "enter"
LocationEnter(mm) ==
    LET m1 == SetStatusTimer(SetStatus(
                  [mm EXCEPT !.config.Location = mm.locationInput,
                             !.isEditingLocation = FALSE,
                             !.viewMode = ViewSettings],
                  "Location saved!"))
    IN Result(m1, FetchWeatherWithConfigCmd(m1.config))

\* Model.updateLocationInputView
updateLocationInputView(mm, k) ==
    CASE k = "esc" -> LocationEsc(mm)
      [] k = "enter" -> LocationEnter(mm)
      [] k = "backspace" ->
            IF Len(mm.locationInput) > 0
            THEN Result([mm EXCEPT !.locationInput =
                            SubSeq(mm.locationInput, 1, Len(mm.locationInput) - 1)],
                        <<>>)
            ELSE Result(mm, <<>>)
      [] OTHER ->
            IF KeyStringLen(k) = 1
            THEN Result([mm EXCEPT !.locationInput = Append(mm.locationInput, k)],
                        <<>>)
            ELSE Result(mm, <<>>)

\* Model.updateAPIKeyInputView
updateAPIKeyInputView(mm, k, ok) ==
    CASE k = "esc" ->
            Result(SetStatusTimer(SetStatus(
                       [mm EXCEPT !.isEditingAPIKey = FALSE,
                                  !.viewMode = ViewSettings],
                       "Cancelled")), <<>>)
      [] k = "enter" ->
            LET w == SaveAPIKey(mm.apiKeyInput, ok)
                m0 == [mm EXCEPT !.config.WeatherAPIKey = mm.apiKeyInput,
                                 !.isEditingAPIKey = FALSE,
                                 !.viewMode = ViewSettings]
                m1 == SetStatusTimer(
                          IF w.err # Nil
                          THEN SetStatus(m0, "Error saving API key")
                          ELSE SetStatus(m0, "API key saved!"))
            IN [Result(m1, FetchWeatherWithConfigCmd(m1.config))
                    EXCEPT !.keyWrite = w.write]
      [] k = "backspace" ->
            IF Len(mm.apiKeyInput) > 0
            THEN Result([mm EXCEPT !.apiKeyInput =
                            SubSeq(mm.apiKeyInput, 1, Len(mm.apiKeyInput) - 1)],
                        <<>>)
            ELSE Result(mm, <<>>)
      [] OTHER ->
            IF KeyStringLen(k) = 1
            THEN Result([mm EXCEPT !.apiKeyInput = Append(mm.apiKeyInput, k)],
                        <<>>)
            ELSE Result(mm, <<>>)

\* CycleUnits that only toggles the units, as a plain units toggle would
CycleUnits_ToggleUnits(mm) ==
    IF mm.config.Units = "imperial"
    THEN SetStatus([mm EXCEPT !.config.Units = "metric"], "Units: Metric")
    ELSE SetStatus([mm EXCEPT !.config.Units = "imperial"], "Units: Imperial")

\* The "u" case of Model.Update: the units/time-format cycle
CycleUnits(mm) ==
    CASE mm.config.Units = "metric" /\ mm.config.TimeFormat = "24" ->
            SetStatus([mm EXCEPT !.config.TimeFormat = "12"],
                      "Units: Metric, Time: 12h")
      [] mm.config.Units = "metric" /\ mm.config.TimeFormat = "12" ->
            SetStatus([mm EXCEPT !.config.Units = "imperial",
                                 !.config.TimeFormat = "24"],
                      "Units: Imperial, Time: 24h")
      [] mm.config.Units = "imperial" /\ mm.config.TimeFormat = "24" ->
            SetStatus([mm EXCEPT !.config.TimeFormat = "12"],
                      "Units: Imperial, Time: 12h")
      [] mm.config.Units = "imperial" /\ mm.config.TimeFormat = "12" ->
            SetStatus([mm EXCEPT !.config.Units = "metric",
                                 !.config.TimeFormat = "24"],
                      "Units: Metric, Time: 24h")
      [] OTHER -> mm

\* ManualRefresh that forgets to clear the stored error
ManualRefresh_KeepError(mm) ==
    LET m1 == [SetStatus(mm, "Refreshing...") EXCEPT !.refreshing = TRUE,
                                                     !.stormyWeather = Nil]
    IN Result(m1, FetchWeatherWithConfigCmd(m1.config))

\* The "r" case of Model.Update: manual refresh
ManualRefresh(mm) ==
    LET m1 == [SetStatus(mm, "Refreshing...") EXCEPT !.refreshing = TRUE,
                                                     !.stormyWeather = Nil,
                                                     !.weatherError = Nil]
    IN Result(m1, FetchWeatherWithConfigCmd(m1.config))

\* Model.Update, case tea.KeyMsg
UpdateKey(mm, k, ok) ==
    IF mm.isEditingLocation THEN updateLocationInputView(mm, k)
    ELSE IF mm.isEditingAPIKey THEN updateAPIKeyInputView(mm, k, ok)
    ELSE CASE k \in {"q", "ctrl+c"} -> Result(mm, Quit)
           [] k = "1" -> Result([mm EXCEPT !.viewMode = ViewWeather], <<>>)
           [] k = "2" -> Result([mm EXCEPT !.viewMode = ViewMoon], <<>>)
           [] k = "3" -> Result([mm EXCEPT !.viewMode = ViewSolar], <<>>)
           [] k = "r" -> ManualRefresh(mm)
           [] k = "u" ->
                LET m1 == SetStatusTimer(CycleUnits(mm))
                IN Result(m1, FetchWeatherWithConfigCmd(m1.config))
           [] k = "t" ->
                Result(SetStatusTimer(
                    IF mm.config.TimeFormat = "24"
                    THEN SetStatus([mm EXCEPT !.config.TimeFormat = "12"],
                                   "Time: 12-hour")
                    ELSE SetStatus([mm EXCEPT !.config.TimeFormat = "24"],
                                   "Time: 24-hour")), <<>>)
           [] k = "s" ->
                Result(SetStatusTimer(SetStatus(
                    [mm EXCEPT !.viewMode = ViewSettings], "Settings")), <<>>)
           [] OTHER ->
                CASE mm.viewMode \in {ViewWeather, ViewMoon, ViewSolar} ->
                        updateMainView(mm, k)
                  [] mm.viewMode = ViewSettings ->
                        updateSettingsView(mm, k, ok)
                  [] OTHER -> Result(mm, <<>>)

\* UpdateTick that does not arm the next tick
UpdateTick_NoReschedule(mm) ==
    Result(IF mm.sinceStatusTimer > StatusWindow
           THEN [mm EXCEPT !.statusMsg = ""]
           ELSE mm,
           <<>>)

\* Model.Update, case tickMsg
UpdateTick(mm) ==
    Result(IF mm.sinceStatusTimer > StatusWindow
           THEN [mm EXCEPT !.statusMsg = ""]
           ELSE mm,
           tickCmd)

\* UpdateRefresh that marks the automatic refresh as refreshing too
UpdateRefresh_MarksRefreshing(mm) ==
    Result([mm EXCEPT !.refreshing = TRUE], FetchWeatherWithConfigCmd(mm.config))

\* Model.Update, case refreshMsg
UpdateRefresh(mm) == Result(mm, FetchWeatherWithConfigCmd(mm.config))

\* UpdateWeather that keeps the old snapshot when an error arrives
UpdateWeather_KeepSnapshot(mm, msg) ==
    LET m1 == IF msg.Error # Nil
              THEN [mm EXCEPT !.refreshing = FALSE,
                              !.weatherError = msg.Error]
              ELSE [mm EXCEPT !.refreshing = FALSE,
                              !.stormyWeather = msg.Weather,
                              !.weatherError = Nil]
    IN Result(SetStatusTimer(m1), <<>>)

\* Model.Update, case messages.WeatherMsg
UpdateWeather(mm, msg) ==
    LET m1 == IF msg.Error # Nil
              THEN [mm EXCEPT !.refreshing = FALSE,
                              !.weatherError = msg.Error,
                              !.stormyWeather = Nil]
              ELSE [mm EXCEPT !.refreshing = FALSE,
                              !.stormyWeather = msg.Weather,
                              !.weatherError = Nil]
    IN Result(SetStatusTimer(m1), <<>>)

\* Model.Update, case messages.MoonDataMsg
UpdateMoon(mm, msg) ==
    IF msg.Error # Nil
    THEN Result([mm EXCEPT !.moon = UpdateWithError(mm.moon, msg.Error)], <<>>)
    ELSE IF msg.Data # Nil
    THEN Result([mm EXCEPT !.moon = UpdateWithData(mm.moon, msg.Data[1])], <<>>)
    ELSE Result(mm, <<>>)

\* ------------------------------------------------------------ fetches
\* weather.CreateWeatherProvider: the error it returns, if any
CreateWeatherProviderErr(providerName, apiKey) ==
    CASE providerName = ProviderWeatherAPI ->
            IF apiKey = <<>> THEN Some("API key is required") ELSE Nil
      [] providerName = ProviderOpenMeteo -> Nil
      [] OTHER -> Some("unsupported weather provider")

\* The messages provider.FetchWeather(location) can lead to
ProviderMsgs(cfg, location) ==
    IF CreateWeatherProviderErr(cfg.WeatherProvider, cfg.WeatherAPIKey) # Nil
    THEN {[Weather |-> Nil, Error |-> Some("failed to create weather provider")]}
    ELSE {[Weather |-> Nil, Error |-> Some("failed to fetch weather")]}
         \cup {[Weather |-> Some([Name |-> location,
                                  Provider |-> cfg.WeatherProvider,
                                  Temp |-> r]),
                Error |-> Nil] : r \in Readings}

\* The WeatherMsg values the closure of FetchWeatherWithConfigCmd can return
WeatherMsgs(cfg) ==
    IF cfg.LocationMode = "ip" \/ cfg.Location = <<>>
    THEN {[Weather |-> Nil, Error |-> Some("failed to detect location")]}
         \cup UNION {ProviderMsgs(cfg, l) : l \in DetectedLocations}
    ELSE ProviderMsgs(cfg, cfg.Location)

\* --------------------------------------------------- the HTTP exchanges
\* What a client.Get and the reading of its body can do: the request fails
\* (transport error, timeout), or a response arrives with a status and a
\* body that cannot be read, is not JSON, or is JSON carrying value (0: an
\* object without the fields the caller looks for).
HttpFail == [kind |-> "transport"]
HttpResponse(status, body) ==
    [kind |-> "response", status |-> status, body |-> body]
Unreadable == [kind |-> "unreadable"]
Garbage == [kind |-> "garbage"]
Json(value) == [kind |-> "json", value |-> value]

\* A service the fetch contacted, with the location it asked for
Call(service, q) == [service |-> service, q |-> q]

\* weather.DetectLocationFromIP on the response of ip-api.com
DetectLocationFromIP(resp) ==
    LET fail == [location |-> <<>>, err |-> Some("no location")]
    IN CASE resp.kind = "transport" -> fail
         [] resp.status # 200 -> fail
         [] resp.body.kind = "unreadable" -> fail
         [] resp.body.kind = "garbage" -> fail
         [] resp.body.value = 0 -> fail
         [] OTHER -> [location |-> CHOOSE l \in DetectedLocations : TRUE,
                      err |-> Nil]

\* WeatherAPIProvider.FetchWeather on the response of api.weatherapi.com
WeatherAPIFetchWeather(location, resp) ==
    LET calls == <<Call("weatherapi", location)>>
        fail(e) == [weather |-> Nil, err |-> Some(e), calls |-> calls]
    IN CASE resp.kind = "transport" -> fail("failed to send request")
         [] resp.status = 401 -> fail("invalid API key")
         [] resp.status = 404 -> fail("location not found")
         [] resp.status # 200 -> fail("API returned status code")
         [] resp.body.kind = "unreadable" -> fail("failed to read response body")
         [] resp.body.kind = "garbage" -> fail("failed to parse JSON")
         [] OTHER ->
              [weather |-> Some([Name |-> IF resp.body.value = 0
                                          THEN <<>> ELSE location,
                                 Provider |-> ProviderWeatherAPI,
                                 Temp |-> resp.body.value]),
               err |-> Nil, calls |-> calls]

\* OpenMeteoProvider.getFirstGeoResult on the response of the geocoding API
getFirstGeoResult(location, resp) ==
    LET fail(e) == [geo |-> Nil, err |-> Some(e)]
    IN CASE resp.kind = "transport" -> fail("transport")
         [] resp.body.kind = "unreadable" -> fail("read")
         [] resp.body.kind = "garbage" -> fail("parse")
         [] resp.body.value = 0 -> fail("no results found for location")
         [] OTHER -> [geo |-> Some([Name |-> location]), err |-> Nil]

\* OpenMeteoProvider.FetchWeather on the responses of the geocoding API and
\* of api.open-meteo.com
OpenMeteoFetchWeather(location, geoResp, resp) ==
    LET geoResult == getFirstGeoResult(location, geoResp)
        geoCall == <<Call("geocoding", location)>>
        calls == geoCall \o <<Call("open-meteo", location)>>
        fail(e) == [weather |-> Nil, err |-> Some(e), calls |-> calls]
    IN CASE geoResult.err # Nil ->
              [weather |-> Nil, err |-> Some("geocoding failed"),
               calls |-> geoCall]
         [] resp.kind = "transport" -> fail("failed to fetch weather data")
         [] resp.body.kind = "unreadable" -> fail("failed to read response body")
         [] resp.body.kind = "garbage" -> fail("failed to parse JSON")
         [] OTHER ->
              [weather |-> Some([Name |-> geoResult.geo[1].Name,
                                 Provider |-> ProviderOpenMeteo,
                                 Temp |-> resp.body.value]),
               err |-> Nil, calls |-> calls]

\* weatherCodeToCondition: the condition of an Open-Meteo weather code
weatherCodeToCondition(code) ==
    CASE code = 0 -> "Clear"
      [] code \in {1, 2, 3} -> "Partly cloudy"
      [] code \in {45, 48} -> "Fog"
      [] code \in {51, 53, 55} -> "Light rain"
      [] code \in {56, 57} -> "Light rain"
      [] code \in {61, 63, 65} -> "Moderate rain"
      [] code \in {66, 67} -> "Heavy rain"
      [] code \in {71, 73, 75} -> "Light snow"
      [] code = 77 -> "Heavy snow"
      [] code \in {80, 81, 82} -> "Heavy rain"
      [] code \in {85, 86} -> "Heavy snow"
      [] code = 95 -> "Thunderstorm"
      [] code \in {96, 99} -> "Thunderstorm"
      [] OTHER -> "Unknown"

\* icons.mapConditionToIcon: the icon name of a condition
mapConditionToIcon(condition, isDay) ==
    CASE condition \in {"Sunny", "Clear"} ->
            IF isDay THEN "Sunny" ELSE "Clear"
      [] condition \in {"Partly cloudy", "Partly Cloudy"} ->
            IF isDay THEN "PartlyCloudy" ELSE "PartlyCloudyNight"
      [] condition \in {"Cloudy", "Overcast"} -> "Cloudy"
      [] condition \in {"Mist", "Fog"} -> "Fog"
      [] condition \in {"Patchy rain possible", "Light rain",
                        "Moderate rain at times", "Moderate rain",
                        "Light drizzle", "Patchy light drizzle"} -> "LightRain"
      [] condition \in {"Heavy rain at times", "Heavy rain",
                        "Moderate or heavy rain shower",
                        "Torrential rain shower"} -> "HeavyRain"
      [] condition \in {"Patchy snow possible", "Light snow",
                        "Patchy light snow", "Light snow showers"} -> "LightSnow"
      [] condition \in {"Moderate snow", "Heavy snow", "Patchy heavy snow",
                        "Moderate or heavy snow showers", "Blizzard"} ->
            "HeavySnow"
      [] condition \in {"Thundery outbreaks possible",
                        "Patchy light rain with thunder",
                        "Moderate or heavy rain with thunder"} -> "Thunderstorm"
      [] condition \in {"Patchy sleet possible", "Light sleet",
                        "Moderate or heavy sleet"} -> "Sleet"
      [] condition \in {"Ice pellets", "Light showers of ice pellets",
                        "Moderate or heavy showers of ice pellets"} ->
            "IcePellets"
      [] OTHER -> "Unknown"

\* icons.GetWeatherIcon as the weather renderer calls it for a snapshot
GetWeatherIcon(weather) ==
    mapConditionToIcon(weather.Condition, weather.IsDay = 1)

\* The "current" object of an Open-Meteo forecast response
OpenMeteoCurrent(temperature, code, isDay) ==
    [Temperature2m |-> temperature, WeatherCode |-> code, IsDay |-> isDay]

\* OpenMeteoProvider.FetchWeather, conversion to the standardized format,
\* with the condition and the day flag of the snapshot
OpenMeteoWeather(name, current) ==
    [Name |-> name, Provider |-> ProviderOpenMeteo,
     Temp |-> current.Temperature2m,
     IsDay |-> current.IsDay,
     Condition |-> weatherCodeToCondition(current.WeatherCode)]

\* fetchWeatherRun as the earlier FetchWeatherWithConfigCmd resolved the
\* location: IP detection only when no location is configured
fetchWeatherRun_LocationFirst(cfg, net) ==
    LET useIP == cfg.Location = <<>>
        detected == DetectLocationFromIP(net.ip)
        ipCall == IF useIP THEN <<Call("ip-api", <<>>)>> ELSE <<>>
        location == IF useIP THEN detected.location ELSE cfg.Location
        fail(e, calls) ==
            [msg |-> [Weather |-> Nil, Error |-> Some(e)], calls |-> calls]
    IN IF useIP /\ detected.err # Nil
       THEN fail("failed to detect location", ipCall)
       ELSE IF CreateWeatherProviderErr(cfg.WeatherProvider,
                                        cfg.WeatherAPIKey) # Nil
       THEN fail("failed to create weather provider", ipCall)
       ELSE LET r == IF cfg.WeatherProvider = ProviderWeatherAPI
                     THEN WeatherAPIFetchWeather(location, net.wx)
                     ELSE OpenMeteoFetchWeather(location, net.geo, net.wx)
            IN IF r.err # Nil
               THEN fail("failed to fetch weather", ipCall \o r.calls)
               ELSE [msg |-> [Weather |-> r.weather, Error |-> Nil],
                     calls |-> ipCall \o r.calls]

\* The closure of messages.FetchWeatherWithConfigCmd run against the
\* responses net.ip, net.geo and net.wx of the services: the WeatherMsg it
\* returns and the services it contacted, in order.
fetchWeatherRun(cfg, net) ==
    LET useIP == cfg.LocationMode = "ip" \/ cfg.Location = <<>>
        detected == DetectLocationFromIP(net.ip)
        ipCall == IF useIP THEN <<Call("ip-api", <<>>)>> ELSE <<>>
        location == IF useIP THEN detected.location ELSE cfg.Location
        fail(e, calls) ==
            [msg |-> [Weather |-> Nil, Error |-> Some(e)], calls |-> calls]
    IN IF useIP /\ detected.err # Nil
       THEN fail("failed to detect location", ipCall)
       ELSE IF CreateWeatherProviderErr(cfg.WeatherProvider,
                                        cfg.WeatherAPIKey) # Nil
       THEN fail("failed to create weather provider", ipCall)
       ELSE LET r == IF cfg.WeatherProvider = ProviderWeatherAPI
                     THEN WeatherAPIFetchWeather(location, net.wx)
                     ELSE OpenMeteoFetchWeather(location, net.geo, net.wx)
            IN IF r.err # Nil
               THEN fail("failed to fetch weather", ipCall \o r.calls)
               ELSE [msg |-> [Weather |-> r.weather, Error |-> Nil],
                     calls |-> ipCall \o r.calls]

\* The responses of the three services a fetch may meet.
IpResponses ==
    {HttpFail, HttpResponse(500, Json(1)), HttpResponse(200, Json(0)),
     HttpResponse(200, Json(1))}
GeoResponses ==
    {HttpFail, HttpResponse(200, Json(0)), HttpResponse(200, Json(1)),
     HttpResponse(500, Json(1))}
WxResponses ==
    {HttpFail, HttpResponse(200, Unreadable), HttpResponse(200, Garbage),
     HttpResponse(200, Json(0)), HttpResponse(200, Json(1)),
     HttpResponse(401, Json(1)), HttpResponse(404, Json(1)),
     HttpResponse(500, Json(1)), HttpResponse(500, Garbage)}
Nets == [ip : IpResponses, geo : GeoResponses, wx : WxResponses]

\* Weather codes the forecast may carry: every WMO code of two digits and
\* one value on each side of them.
WeatherCodes == -1..100

\* What the moon HTTP request can do: fail in one of four ways, or deliver a
\* body that decodes to a MoonResponse.
MoonFailures == {[kind |-> k] : k \in {"transport", "status", "body", "decode"}}
MoonAnswer(response) == [kind |-> "ok", response |-> response]

\* The MoonDataMsg of a fetch that the API answers with a full moon
MoonMsgs ==
    {fetchMoonDataMsg(
        MoonAnswer(<<MoonData("Full Moon", 1477000, <<"Wolf Moon">>)>>), 0)}

\* Moon ages: every whole day of the cycle, the thresholds of both phase
\* tables with their neighbours 0.01 day away, and the ends of the cycle.
MoonAges ==
    {d * AgeUnit : d \in 0..29}
        \cup {phases[i].age + e : i \in 2..Len(phases), e \in {-1000, 0, 1000}}
        \cup {184566, 553699, 922831, 1291963, 1661096, 2030228, 2399361,
              2768493}
        \cup {2952000, 2953058}

\* Decoded API responses: an empty list ("[]"), an element without fields
\* ("[{}]"), and well-formed elements.
MoonResponses ==
    {<<>>, <<MoonData("", 0, <<>>)>>}
        \cup {<<MoonData("Full Moon", a, n)>> :
                a \in {1477000, 1500000}, n \in {<<>>, <<"Wolf Moon">>}}

MoonOutcomes == MoonFailures \cup {MoonAnswer(r) : r \in MoonResponses}

\* ------------------------------------------------------------ the runtime
\* Number of primitive commands of type t in cmd
Count(cmd, t) == Cardinality({i \in DOMAIN cmd : cmd[i].type = t})

\* The configurations captured by the weather fetches in cmd
RECURSIVE FetchesOf(_)
FetchesOf(cmd) ==
    IF cmd = <<>> THEN EmptyBag
    ELSE (IF Head(cmd).type = "fetchWeather"
          THEN SetToBag({Head(cmd).cfg}) ELSE EmptyBag) (+) FetchesOf(Tail(cmd))

\* The runtime stores the Model returned by Update and starts its command;
\* wc, mc, td and rp are the pending commands left once the message that was
\* processed is taken out.
Apply(r, wc, mc, td, rp) ==
    /\ m' = r.m
    /\ weatherCmds' = wc (+) FetchesOf(r.cmd)
    /\ moonCmds' = mc + Count(r.cmd, "fetchMoon")
    /\ tickArmed' = tickArmed + Count(r.cmd, "tick")
    /\ tickDue' = td
    /\ refreshPending' = rp + Count(r.cmd, "refresh")
    /\ refreshDelay' = IF Count(r.cmd, "refresh") > 0
                       THEN RefreshMinutes ELSE refreshDelay
    /\ quit' = (quit \/ Count(r.cmd, "quit") > 0)
    /\ configFile' = IF r.cfgWrite # Nil THEN r.cfgWrite ELSE configFile
    /\ envFile' = IF r.keyWrite # Nil THEN r.keyWrite ELSE envFile

\* A key press is delivered to Update; ok is the outcome of the file write
\* the handler may attempt.
KeyMsg(k, ok) ==
    /\ ~quit
    /\ Apply(UpdateKey(m, k, ok), weatherCmds, moonCmds, tickDue, refreshPending)
    /\ UNCHANGED lastWeatherMsg

\* A due 1-second timer delivers its tickMsg.
TickMsg ==
    /\ ~quit
    /\ tickDue > 0
    /\ Apply(UpdateTick(m), weatherCmds, moonCmds, tickDue - 1, refreshPending)
    /\ UNCHANGED lastWeatherMsg

\* The refresh timer delivers its refreshMsg.
RefreshMsg ==
    /\ ~quit
    /\ refreshPending > 0
    /\ Apply(UpdateRefresh(m), weatherCmds, moonCmds, tickDue, refreshPending - 1)
    /\ UNCHANGED lastWeatherMsg

\* DeliverWeather where one result answers every fetch made with the same
\* configuration
DeliverWeather_Deduplicated(c) ==
    /\ ~quit
    /\ BagIn(c, weatherCmds)
    /\ \E msg \in WeatherMsgs(c) :
          /\ Apply(UpdateWeather(m, msg),
                   [d \in BagToSet(weatherCmds) \ {c} |-> weatherCmds[d]],
                   moonCmds, tickDue, refreshPending)
          /\ lastWeatherMsg' = Some(msg)

\* The weather fetch that captured c returns and its WeatherMsg is delivered.
DeliverWeather(c) ==
    /\ ~quit
    /\ BagIn(c, weatherCmds)
    /\ \E msg \in WeatherMsgs(c) :
          /\ Apply(UpdateWeather(m, msg), weatherCmds (-) SetToBag({c}),
                   moonCmds, tickDue, refreshPending)
          /\ lastWeatherMsg' = Some(msg)

\* Some weather fetch returns.
WeatherMsg == \E c \in BagToSet(weatherCmds) : DeliverWeather(c)

\* The weather fetch that captured c has run against the responses net and
\* its WeatherMsg is delivered.
FetchReturns(c, net) ==
    /\ ~quit
    /\ BagIn(c, weatherCmds)
    /\ Apply(UpdateWeather(m, fetchWeatherRun(c, net).msg),
             weatherCmds (-) SetToBag({c}), moonCmds, tickDue, refreshPending)
    /\ lastWeatherMsg' = Some(fetchWeatherRun(c, net).msg)

\* Some weather fetch returns, whatever the services answered.
WeatherFetched ==
    \E c \in BagToSet(weatherCmds) : \E net \in Nets : FetchReturns(c, net)

\* The Open-Meteo fetch that captured c returns the forecast current for its
\* configured location and its WeatherMsg is delivered.
ForecastReturns(c, current) ==
    /\ ~quit
    /\ BagIn(c, weatherCmds)
    /\ c.WeatherProvider = ProviderOpenMeteo
    /\ c.LocationMode = "manual" /\ c.Location # <<>>
    /\ LET msg == [Weather |-> Some(OpenMeteoWeather(c.Location, current)),
                   Error |-> Nil]
       IN /\ Apply(UpdateWeather(m, msg), weatherCmds (-) SetToBag({c}),
                   moonCmds, tickDue, refreshPending)
          /\ lastWeatherMsg' = Some(msg)

\* Some Open-Meteo fetch returns, whatever weather code the service reports,
\* by day or by night.
ForecastFetched ==
    \E c \in BagToSet(weatherCmds) :
        \E code \in WeatherCodes : \E isDay \in {0, 1} :
            ForecastReturns(c, OpenMeteoCurrent(1, code, isDay))

\* A moon fetch returns msg, which is delivered to Update.
DeliverMoon(msg) ==
    /\ ~quit
    /\ moonCmds > 0
    /\ Apply(UpdateMoon(m, msg), weatherCmds, moonCmds - 1, tickDue,
             refreshPending)
    /\ UNCHANGED lastWeatherMsg

\* A moon fetch that the API answered returns and its MoonDataMsg is
\* delivered.
MoonDataMsg == \E msg \in MoonMsgs : DeliverMoon(msg)

\* A moon fetch returns, whatever the HTTP request did and whatever the age
\* of the moon, and its MoonDataMsg is delivered.
MoonFetched ==
    \E outcome \in MoonOutcomes : \E moonAge \in MoonAges :
        DeliverMoon(fetchMoonDataMsg(outcome, moonAge))

\* One second passes: armed 1-second timers become due.
AdvanceTime ==
    /\ ~quit
    /\ m' = [m EXCEPT !.sinceStatusTimer = Min(m.sinceStatusTimer + 1, AgeCap),
                      !.sinceStatusSet = Min(m.sinceStatusSet + 1, AgeCap)]
    /\ tickDue' = tickDue + tickArmed
    /\ tickArmed' = 0
    /\ UNCHANGED <<weatherCmds, moonCmds, refreshPending, refreshDelay, quit,
                   fileVars, lastWeatherMsg>>

\* The state after tea.NewProgram(InitialModelWithConfig(cfg)) has run Init,
\* for a start-up configuration in cfgs.
InitWith(cfgs) ==
    \E cfg \in cfgs :
        /\ m = InitialModelWithConfig(cfg)
        /\ weatherCmds = FetchesOf(ModelInit(m))
        /\ moonCmds = Count(ModelInit(m), "fetchMoon")
        /\ tickArmed = Count(ModelInit(m), "tick")
        /\ tickDue = 0
        /\ refreshPending = Count(ModelInit(m), "refresh")
        /\ refreshDelay = RefreshMinutes
        /\ quit = FALSE
        /\ configFile = Some(TomlOf(cfg))
        /\ envFile = Some(cfg.WeatherAPIKey)
        /\ lastWeatherMsg = Nil

\* The state after main has read the config file, applied the flags and
\* started the program.
InitFrom(files, envKeys, flagSets) ==
    \E file \in files : \E envKey \in envKeys : \E flags \in flagSets :
        /\ m = InitialModelWithConfig(mainConfig(file, envKey, flags))
        /\ weatherCmds = FetchesOf(ModelInit(m))
        /\ moonCmds = Count(ModelInit(m), "fetchMoon")
        /\ tickArmed = Count(ModelInit(m), "tick")
        /\ tickDue = 0
        /\ refreshPending = Count(ModelInit(m), "refresh")
        /\ refreshDelay = RefreshMinutes
        /\ quit = FALSE
        /\ configFile = ReadConfig(file, envKey).file
        /\ envFile = Some(envKey)
        /\ lastWeatherMsg = Nil

\* An edit sub-state is active.
Editing == m.isEditingLocation \/ m.isEditingAPIKey
\* Number of weather fetches in flight.
InFlight == BagCardinality(weatherCmds)

\* The user types at most MaxLen characters into a buffer and at most
\* MaxInFlight weather fetches are outstanding.
WithinBounds ==
    /\ BagCardinality(weatherCmds') <= MaxInFlight
    /\ Len(m'.locationInput) <= MaxLen
    /\ Len(m'.apiKeyInput) <= MaxLen

\* The user presses one of the keys of K (a set that may depend on the
\* state the user sees).
KeyPress(K) ==
    \E k \in K : \E ok \in BOOLEAN : KeyMsg(k, ok) /\ WithinBounds

AutoRefresh == RefreshMsg /\ WithinBounds

\* What a fetch dispatched under cfg captures
Captured(cfg) == FetchWeatherWithConfigCmd(cfg)[1].cfg

\* ---------------------------------------------------------------------
\* Spec: data refresh.  The user refreshes, switches tabs and toggles the
\* location mode in Settings while the refresh timer fires and fetches
\* return.
RefreshKeys == {"r", "1", "2", "3", "s", "enter", "esc"}
RefreshConfigs ==
    {Config(ProviderWeatherAPI, <<"a">>, lm, "metric", "24", 5, <<"k">>) :
        lm \in {"ip", "manual"}}

Init == InitWith(RefreshConfigs)

Next ==
    \/ KeyPress(RefreshKeys)
    \/ AutoRefresh
    \/ WeatherMsg
    \/ MoonDataMsg

Spec == Init /\ [][Next]_vars

\* The scheduling of the runtime: a pending timer fires and every fetch
\* returns (the HTTP clients have timeouts).  Key presses are not fair.
FairSpec ==
    /\ Spec
    /\ WF_vars(AutoRefresh)
    /\ \A cfg \in RefreshConfigs : WF_vars(DeliverWeather(Captured(cfg)))
    /\ WF_vars(MoonDataMsg)

\* ---------------------------------------------------------------------
\* SpecKeys: navigation and display settings.  The user switches tabs, opens
\* Settings, moves the cursor, cycles units and time format and quits; each
\* key is pressed once the weather fetch of the previous one has returned.
NavKeys == {"q", "ctrl+c", "1", "2", "3", "u", "t", "s", "tab", "shift+tab",
            "up", "down", "esc", "a"}
NavConfigs ==
    {Config(ProviderOpenMeteo, <<"a">>, "manual", u, tf, 5, <<>>) :
        u \in {"metric", "imperial"}, tf \in {"12", "24"}}

NavUser == {k \in NavKeys : InFlight = 0}

InitKeys == InitWith(NavConfigs)

NextKeys ==
    \/ KeyPress(NavUser)
    \/ WeatherMsg
    \/ MoonDataMsg

SpecKeys == InitKeys /\ [][NextKeys]_vars

\* ---------------------------------------------------------------------
\* SpecClock: the clock.  Seconds pass and the 1-second timer fires while the
\* user refreshes and works through the Settings menu (toggling the location
\* mode, opening and leaving the edit sub-states without typing, saving);
\* each key is pressed once the weather fetch of the previous one has
\* returned.
ClockKeys == {"r", "s", "down", "enter", "esc"}
ClockConfigs ==
    {Config(ProviderWeatherAPI, <<"a">>, "manual", "metric", "24", 5, <<"k">>)}

ClockUser ==
    {k \in ClockKeys : InFlight = 0 /\ (Editing => k \in {"enter", "esc"})}

InitClock == InitWith(ClockConfigs)

NextClock ==
    \/ KeyPress(ClockUser)
    \/ TickMsg
    \/ AdvanceTime
    \/ AutoRefresh
    \/ WeatherMsg
    \/ MoonDataMsg

SpecClock == InitClock /\ [][NextClock]_vars

\* ---------------------------------------------------------------------
\* SpecEdit: the edit sub-states.  The user opens Settings, moves to "Set
\* Location" or "Set API Key", edits the buffer (typing "a" or a letter
\* outside ASCII, backspace) and
\* leaves with Enter or Esc, any number of times; each key is pressed once
\* the weather fetch of the previous one has returned.
EditKeys == {"s", "down", "enter", "esc", "backspace", "a", NonASCIIKey}
EditConfigs ==
    {Config(ProviderWeatherAPI, <<"a">>, "manual", "metric", "24", 5, <<"k">>)}

EditUser ==
    {k \in EditKeys :
        /\ InFlight = 0
        /\ Editing => k \in {"a", NonASCIIKey, "backspace", "enter", "esc"}
        /\ (~Editing /\ m.viewMode = ViewSettings /\ k = "enter") =>
                m.settingsCursor \in {1, 2}}

InitEdit == InitWith(EditConfigs)

NextEdit == KeyPress(EditUser) \/ WeatherMsg \/ MoonDataMsg

SpecEdit == InitEdit /\ [][NextEdit]_vars

\* ---------------------------------------------------------------------
\* SpecSettings: the Settings menu.  The user opens Settings, moves the
\* cursor both ways, selects every option (opening and leaving the edit
\* sub-states without typing), cycles the units and quits, while the
\* refresh timer fires and fetches return; each key is pressed once the
\* weather fetch of the previous one has returned.
SettingsKeys == {"s", "up", "down", "enter", "esc", "u", "q"}
SettingsConfigs ==
    {Config(ProviderWeatherAPI, <<"a">>, "manual", "metric", "24", 5, <<"k">>)}

SettingsUser ==
    {k \in SettingsKeys :
        InFlight = 0 /\ (Editing => k \in {"enter", "esc"})}

InitSettings == InitWith(SettingsConfigs)

NextSettings ==
    \/ KeyPress(SettingsUser)
    \/ AutoRefresh
    \/ WeatherMsg
    \/ MoonDataMsg

SpecSettings == InitSettings /\ [][NextSettings]_vars

\* ---------------------------------------------------------------------
\* SpecMoon: the moon fetch.  The fetch dispatched by Init returns with any
\* outcome of the HTTP request at any age of the moon, while the user
\* switches between the tabs and the weather fetch returns.
MoonKeys == {"1", "2", "3", "tab"}
MoonConfigs ==
    {Config(ProviderOpenMeteo, <<"a">>, "manual", "metric", "24", 5, <<>>)}

InitMoon == InitWith(MoonConfigs)

NextMoon == KeyPress(MoonKeys) \/ MoonFetched \/ WeatherMsg

SpecMoon == InitMoon /\ [][NextMoon]_vars

\* ---------------------------------------------------------------------
\* SpecFetch: the weather fetch against the network.  Under every provider,
\* location mode, location and key, the fetches dispatched by Init and by R
\* run against every combination of responses of the IP, geocoding and
\* weather services; R is pressed once the previous fetch has returned.
FetchKeys == {"r"}
FetchConfigs ==
    {Config(p, l, lm, "metric", "24", 5, key) :
        p \in {ProviderWeatherAPI, ProviderOpenMeteo},
        l \in {<<>>, <<"a">>},
        lm \in {"ip", "manual"},
        key \in {<<>>, <<"k">>}}

FetchUser == {k \in FetchKeys : InFlight = 0}

InitFetch == InitWith(FetchConfigs)

NextFetch == KeyPress(FetchUser) \/ WeatherFetched \/ MoonDataMsg

SpecFetch == InitFetch /\ [][NextFetch]_vars

\* ---------------------------------------------------------------------
\* SpecStart: start-up.  The program starts from any config file (absent,
\* unparsable, incomplete, with valid and invalid values), with or without
\* the key in the environment and with any flags; the user then cycles the
\* units, toggles the location mode and saves; each key is pressed once the
\* weather fetch of the previous one has returned.
StartFiles ==
    {Nil, Some(Unparsable), Some([Units |-> "imperial"]),
     Some(TomlOf(Config(ProviderOpenMeteo, <<"a">>, "manual", "imperial",
                        "12", 30, <<>>))),
     Some(TomlOf(Config("Foo", <<"a">>, "auto", "kelvin", "13", 61, <<>>))),
     Some(TomlOf(Config(ProviderOpenMeteo, <<"a">>, "auto", "imperial",
                        "13", 30, <<>>))),
     Some(TomlOf(Config("Foo", <<"a">>, "manual", "kelvin", "12", 0, <<>>)))}
StartEnvKeys == {<<>>, <<"k">>}
StartFlags ==
    {Flags(l, u, tf, r) :
        l \in {<<>>, <<"b">>},
        u \in {"metric", "imperial", "kelvin"},
        tf \in {"24", "12"},
        r \in {5, 30, 100}}

StartKeys == {"s", "up", "enter", "u"}
StartUser ==
    {k \in StartKeys :
        /\ InFlight = 0
        /\ (m.viewMode = ViewSettings /\ k = "enter") =>
                m.settingsCursor \in {0, 3}}

InitStart == InitFrom(StartFiles, StartEnvKeys, StartFlags)

NextStart == KeyPress(StartUser) \/ WeatherMsg \/ MoonDataMsg

SpecStart == InitStart /\ [][NextStart]_vars

\* ---------------------------------------------------------------------
\* SpecDefaults: start-up without the -units and -time flags.  The program
\* starts from any config file, with or without the key in the environment,
\* with or without the -location and -refresh flags; the user then toggles
\* the location mode and saves, leaving units and time format alone; each
\* key is pressed once the weather fetch of the previous one has returned.
FlagsWithoutUnitsAndTime ==
    {Flags(l, DefaultFlags.units, DefaultFlags.timeFormat, r) :
        l \in {<<>>, <<"b">>}, r \in {5, 30}}

DefaultsKeys == StartKeys \ {"u"}
DefaultsUser == StartUser \cap DefaultsKeys

InitDefaults == InitFrom(StartFiles, StartEnvKeys, FlagsWithoutUnitsAndTime)

NextDefaults == KeyPress(DefaultsUser) \/ WeatherMsg \/ MoonDataMsg

SpecDefaults == InitDefaults /\ [][NextDefaults]_vars

\* ---------------------------------------------------------------------
\* SpecIcons: the conditions of the keyless provider.  The fetches dispatched
\* by Init and by R return a forecast with any weather code, by day or by
\* night, while the user switches between the tabs; a key is pressed once
\* the previous fetch has returned.
IconKeys == {"r", "1", "2", "3"}
IconConfigs ==
    {Config(ProviderOpenMeteo, <<"a">>, "manual", "metric", "24", 5, <<>>)}

IconUser == {k \in IconKeys : InFlight = 0}

InitIcons == InitWith(IconConfigs)

NextIcons == KeyPress(IconUser) \/ ForecastFetched \/ MoonDataMsg

SpecIcons == InitIcons /\ [][NextIcons]_vars

\* ---------------------------------------------------------------- rendering
\* Model.createWeatherPanelContent: which of its three contents is shown
createWeatherPanelContent(mm) ==
    IF mm.stormyWeather # Nil THEN "weather"
    ELSE IF mm.weatherError # Nil THEN "unavailable"
    ELSE "loading"

\* ------------------------------------------------------------------ claims

\* C1: every processed refresh tick dispatches a weather fetch and leaves a
\* new refresh tick pending, so that automatic refreshes recur.
C1_RefreshReschedules ==
    [][RefreshMsg => /\ InFlight' = InFlight + 1
                     /\ refreshPending' >= 1]_vars

\* C2: weather results are applied one whole message at a time in arrival
\* order.  Processing a WeatherMsg takes exactly one fetch out of flight and
\* leaves the snapshot and error slots equal to that message; in every state
\* the slots hold the last message processed or were cleared by a refresh
\* whose fetch is still in flight; and a fetch leaves flight only by having
\* its message processed, so none is cancelled, dropped or merged.
C2_SlotsAreLastMessage ==
    IF lastWeatherMsg = Nil
    THEN m.stormyWeather = Nil /\ m.weatherError = Nil
    ELSE \/ /\ m.stormyWeather = lastWeatherMsg[1].Weather
            /\ m.weatherError = lastWeatherMsg[1].Error
         \/ /\ m.stormyWeather = Nil /\ m.weatherError = Nil
            /\ InFlight > 0

C2_WholeMessageStep ==
    /\ WeatherMsg =>
          /\ InFlight' = InFlight - 1
          /\ lastWeatherMsg' # Nil
          /\ m'.stormyWeather = lastWeatherMsg'[1].Weather
          /\ m'.weatherError = lastWeatherMsg'[1].Error
          /\ (m'.stormyWeather = Nil) # (m'.weatherError = Nil)
    /\ ~WeatherMsg =>
          /\ InFlight' >= InFlight
          /\ lastWeatherMsg' = lastWeatherMsg

C2_OverlappingResultsApplied ==
    /\ []C2_SlotsAreLastMessage
    /\ [][C2_WholeMessageStep]_vars

\* A result of one of two overlapping fetches has been applied and the other
\* is still in flight.
C2_Witness ==
    /\ InFlight = 1
    /\ lastWeatherMsg # Nil
    /\ m.statusMsg = "Refreshing..."
    /\ ~m.refreshing

\* The location a fetch made with the current configuration would report.
CurrentLocations ==
    IF m.config.LocationMode = "ip" \/ m.config.Location = <<>>
    THEN DetectedLocations ELSE {m.config.Location}

\* The snapshot on display was fetched for another location than the
\* configuration now asks for.
Stale ==
    /\ m.stormyWeather # Nil
    /\ m.stormyWeather[1].Name \notin CurrentLocations

\* C3: a stale snapshot is replaced by the result of a later fetch without
\* any key press.  Only a WeatherMsg replaces a snapshot, so whenever a stale
\* snapshot is shown a fetch is in flight or the refresh timer is pending.
C3_StaleWillBeReplaced == Stale => (InFlight > 0 \/ refreshPending > 0)

\* C4: R in a non-edit state dispatches a weather fetch and a moon fetch.
C4_RefreshFetchesMoon ==
    [][(~Editing /\ KeyMsg("r", TRUE)) =>
          /\ InFlight' = InFlight + 1
          /\ moonCmds' = moonCmds + 1]_vars

\* C5: R in a non-edit state clears the snapshot and the error, sets the
\* refreshing flag and dispatches exactly one weather fetch, made with the
\* current configuration; the weather panel then shows its loading state
\* until a weather result is processed.
C5_RefreshStep ==
    /\ (~Editing /\ KeyMsg("r", TRUE)) =>
          /\ m'.stormyWeather = Nil
          /\ m'.weatherError = Nil
          /\ m'.refreshing
          /\ weatherCmds' = weatherCmds (+) SetToBag({Captured(m.config)})
          /\ createWeatherPanelContent(m') = "loading"
    /\ (m.refreshing /\ createWeatherPanelContent(m) = "loading"
            /\ ~WeatherMsg) =>
          createWeatherPanelContent(m') = "loading"

C5_RefreshClearsAndFetches == [][C5_RefreshStep]_vars

\* R was pressed in Settings after a failed fetch: the error is gone and the
\* retry is in flight.
C5_Witness ==
    /\ m.viewMode = ViewSettings
    /\ m.refreshing
    /\ lastWeatherMsg # Nil
    /\ lastWeatherMsg[1].Error # Nil
    /\ m.weatherError = Nil
    /\ InFlight > 0

\* The U cycle as documented: a press moves one place to the right, and from
\* the last place back to the first.
UnitSequence ==
    << <<"metric", "24">>, <<"metric", "12">>,
       <<"imperial", "24">>, <<"imperial", "12">> >>

UnitPair(mm) == <<mm.config.Units, mm.config.TimeFormat>>

\* C6: for units in {metric, imperial} and time format in {12, 24}, a press
\* of U in a non-edit state moves the pair one place along UnitSequence
\* (cyclically), and four presses restore the pair.
ValidUnitPair ==
    /\ m.config.Units \in {"metric", "imperial"}
    /\ m.config.TimeFormat \in {"12", "24"}

C6_UnitStep ==
    (ValidUnitPair /\ ~Editing /\ KeyMsg("u", TRUE)) =>
        \E i \in 1..4 :
            /\ UnitPair(m) = UnitSequence[i]
            /\ UnitPair(m') = UnitSequence[(i % 4) + 1]

C6_FourPressesRestore ==
    LET Press(mm) == UpdateKey(mm, "u", TRUE).m
    IN (ValidUnitPair /\ ~Editing) =>
          /\ UnitPair(Press(Press(Press(Press(m))))) = UnitPair(m)
          /\ {UnitPair(m), UnitPair(Press(m)), UnitPair(Press(Press(m))),
              UnitPair(Press(Press(Press(m))))}
                = {UnitSequence[i] : i \in 1..4}

C7_TickStep ==
    (TickMsg /\ m.statusMsg # "") =>
        /\ (m'.statusMsg = "" => m.sinceStatusSet >= StatusWindow)
        /\ (m.sinceStatusSet > StatusWindow => m'.statusMsg = "")

C7_StatusWindow == [][C7_TickStep]_vars

\* What re-entering the edit sub-state and pressing Enter without typing
\* makes of the model mm
Recommit(mm) == UpdateKey(UpdateKey(mm, "enter", TRUE).m, "enter", TRUE).m

\* C8: Esc discards the edit buffer.  From any state of an edit sub-state,
\* pressing Esc, opening the same sub-state again and pressing Enter without
\* typing leaves the location and the API key as they are now.
C8_EscDiscardsBuffer ==
    Editing =>
        LET cancelled == UpdateKey(m, "esc", TRUE).m
        IN /\ Recommit(cancelled).config.Location = m.config.Location
           /\ Recommit(cancelled).config.WeatherAPIKey = m.config.WeatherAPIKey

\* C9: Esc in an edit sub-state returns to Settings and commits nothing: the
\* configuration is unchanged, no weather fetch is dispatched and neither
\* the config file nor the secret file is written.
C9_EscStep ==
    (Editing /\ \E ok \in BOOLEAN : KeyMsg("esc", ok)) =>
        /\ m'.viewMode = ViewSettings
        /\ ~m'.isEditingLocation /\ ~m'.isEditingAPIKey
        /\ m'.config = m.config
        /\ weatherCmds' = weatherCmds
        /\ configFile' = configFile
        /\ envFile' = envFile

C9_EscCommitsNothing == [][C9_EscStep]_vars

\* An edit of the location was cancelled: back in Settings, the buffer holds
\* text that differs from the configured location and nothing is in flight.
C9_Witness ==
    /\ m.viewMode = ViewSettings
    /\ m.statusMsg = "Cancelled"
    /\ m.settingsCursor = 1
    /\ m.locationInput # m.config.Location
    /\ InFlight = 0

\* C10: Enter in an edit sub-state sets the edited field to the buffer,
\* returns to Settings with the edit flag cleared, and dispatches exactly
\* one weather fetch, which captures the updated configuration.
C10_EnterStep ==
    (Editing /\ \E ok \in BOOLEAN : KeyMsg("enter", ok)) =>
        /\ IF m.isEditingLocation
           THEN m'.config.Location = m.locationInput
           ELSE m'.config.WeatherAPIKey = m.apiKeyInput
        /\ m'.viewMode = ViewSettings
        /\ ~m'.isEditingLocation /\ ~m'.isEditingAPIKey
        /\ weatherCmds' = weatherCmds (+) SetToBag({Captured(m'.config)})

SavePressed(ok) ==
    /\ ~Editing
    /\ m.viewMode = ViewSettings
    /\ m.settingsCursor = 3
    /\ KeyMsg("enter", ok)

\* C11: Save writes the in-memory configuration to the config file and
\* returns to the Weather tab; a failed write shows the failure status and a
\* successful one the success status; either way the in-memory configuration
\* is unchanged and the program keeps running.
C11_SaveStep ==
    /\ SavePressed(TRUE) =>
          /\ configFile' = Some(TomlOf(m.config))
          /\ m'.statusMsg = "Config saved!"
    /\ SavePressed(FALSE) => m'.statusMsg = "Error saving config"
    /\ (\E ok \in BOOLEAN : SavePressed(ok)) =>
          /\ m'.viewMode = ViewWeather
          /\ m'.config = m.config
          /\ ~quit'
          /\ envFile' = envFile

C11_SaveWritesConfig == [][C11_SaveStep]_vars

\* A save failed after the configuration was changed in memory: the failure
\* is on screen in the Weather tab and the file still holds the old settings.
C11_Witness ==
    /\ m.viewMode = ViewWeather
    /\ m.statusMsg = "Error saving config"
    /\ configFile # Some(TomlOf(m.config))
    /\ ~quit

\* Up or Down is pressed in the Settings menu.
CursorKey(k) == ~Editing /\ m.viewMode = ViewSettings /\ KeyMsg(k, TRUE)

\* The option after and before option c, cyclically
NextOption(c) == IF c = SettingsOptions - 1 THEN 0 ELSE c + 1
PrevOption(c) == IF c = 0 THEN SettingsOptions - 1 ELSE c - 1

\* C12: the settings cursor stays inside the option list; in Settings, Down
\* would move it one place forward and Up one place back, cyclically (from
\* the last option to the first and from the first to the last); no step
\* other than Up or Down in Settings changes it.
C12_CursorInRange == m.settingsCursor \in 0..(SettingsOptions - 1)

C12_CursorWraps ==
    (~Editing /\ m.viewMode = ViewSettings) =>
        /\ UpdateKey(m, "down", TRUE).m.settingsCursor
               = NextOption(m.settingsCursor)
        /\ UpdateKey(m, "up", TRUE).m.settingsCursor
               = PrevOption(m.settingsCursor)

C12_CursorStep ==
    /\ CursorKey("down") => m'.settingsCursor = NextOption(m.settingsCursor)
    /\ CursorKey("up") => m'.settingsCursor = PrevOption(m.settingsCursor)
    /\ ~(CursorKey("down") \/ CursorKey("up")) =>
          m'.settingsCursor = m.settingsCursor

C12_CursorCycles ==
    /\ []C12_CursorInRange
    /\ []C12_CursorWraps
    /\ [][C12_CursorStep]_vars

\* Settings was opened and the cursor was moved to the last option with no
\* option selected since.
C12_Witness ==
    /\ m.viewMode = ViewSettings
    /\ m.statusMsg = "Settings"
    /\ m.settingsCursor = SettingsOptions - 1

\* C13: moon-fetch failures never reach the UI.  For every failure of the
\* HTTP request FetchMoonData returns no error and the result of the local
\* fallback, whose Moon name is "Calculated"; and the moon error slot of the
\* model is unset.
C13_FallbackOnFailure ==
    \A outcome \in MoonFailures : \A moonAge \in MoonAges :
        LET r == FetchMoonData(outcome, moonAge)
        IN /\ r.err = Nil
           /\ r.data # Nil
           /\ Len(r.data[1]) = 1
           /\ r.data[1][1].Moon = <<"Calculated">>

C13_MoonFailuresHidden == C13_FallbackOnFailure /\ m.moon.Error = Nil

\* The result of the local fallback has been applied.
C13_Witness ==
    /\ ~m.moon.IsLoading
    /\ m.moon.Error = Nil
    /\ m.moon.MoonName = "Calculated"

\* The 8 canonical phase names
CanonicalPhases ==
    {"New Moon", "Waxing Crescent", "First Quarter", "Waxing Gibbous",
     "Full Moon", "Waning Gibbous", "Last Quarter", "Waning Crescent"}

\* C14: when the moon panel is neither loading nor in error, the stored
\* phase name is one of the 8 canonical phases.
C14_CanonicalPhase ==
    (~m.moon.IsLoading /\ m.moon.Error = Nil) =>
        m.moon.Phase \in CanonicalPhases

\* The phase whose onset threshold is the smallest one greater than age,
\* New Moon when no threshold is greater
ExpectedNextPhase(age) ==
    LET later == {i \in 1..Len(phases) : phases[i].age > age}
    IN IF later = {} THEN "New Moon"
       ELSE phases[CHOOSE i \in later :
                      \A j \in later : phases[i].age <= phases[j].age].name

\* The moon ages inside the cycle
CycleAges == {a \in MoonAges : 0 <= a /\ a < moonCycle}

\* C16: for every moon age in [0, cycle) the next-phase prediction reports
\* at least 1 day, and the next phase is the one with the smallest onset
\* threshold greater than the age, New Moon after the last threshold.  This
\* holds of both implementations and of what a moon result stores.
C16_Prediction ==
    \A age \in CycleAges :
        /\ calculateNextPhase(age).days >= 1
        /\ calculateNextPhase(age).name = ExpectedNextPhase(age)
        /\ CalculateNextPhase(age, "").days >= 1
        /\ CalculateNextPhase(age, "").name = ExpectedNextPhase(age)

C16_StoredStep ==
    \A age \in CycleAges : \A outcome \in MoonFailures :
        DeliverMoon(fetchMoonDataMsg(outcome, age)) =>
            /\ m'.moon.DaysToNext >= 1
            /\ m'.moon.NextPhase = ExpectedNextPhase(age)

C16_DaysToNextPhase == []C16_Prediction /\ [][C16_StoredStep]_vars

\* A result computed at an age less than a day before the end of the cycle
\* has been applied: New Moon is next, in 1 day.
C16_Witness ==
    /\ m.moon.MoonName = "Calculated"
    /\ m.moon.Phase = "New Moon"
    /\ m.moon.NextPhase = "New Moon"
    /\ m.moon.DaysToNext = 1

\* The services of the weather provider that run contacted
ProviderCalls(run) ==
    {run.calls[i] : i \in {j \in 1..Len(run.calls) :
                              run.calls[j].service # "ip-api"}}

\* Every response the provider adapter received in a run of the fetch that
\* captured c against net had status 200 and a body that decoded.
ResponsesOk(c, net) ==
    LET got == {cl.service : cl \in ProviderCalls(fetchWeatherRun(c, net))}
        ok(resp) == /\ resp.kind = "response"
                    /\ resp.status = 200
                    /\ resp.body.kind = "json"
    IN /\ "geocoding" \in got => ok(net.geo)
       /\ ({"weatherapi", "open-meteo"} \cap got) # {} => ok(net.wx)

\* C15: a weather fetch delivers a snapshot only when every HTTP response
\* the provider adapter received had status 200 and decoded; and the adapter
\* contacts no service twice.
C15_FetchStep ==
    \A c \in BagToSet(weatherCmds) : \A net \in Nets :
        FetchReturns(c, net) =>
            /\ m'.stormyWeather # Nil => ResponsesOk(c, net)
            /\ \A i, j \in 1..Len(fetchWeatherRun(c, net).calls) :
                  fetchWeatherRun(c, net).calls[i].service
                      = fetchWeatherRun(c, net).calls[j].service => i = j

C15_Non200IsAnError == [][C15_FetchStep]_vars

\* The run contacted the IP geolocation service
UsesIP(run) == \E i \in 1..Len(run.calls) : run.calls[i].service = "ip-api"

\* C19: a weather fetch resolves its location from the location mode.  For
\* every fetch in flight and all responses of the services: IP geolocation
\* is used exactly when the mode is "ip" or the location is empty; in manual
\* mode with a location the provider (when one can be created) is queried,
\* with the configured location, and the IP service is not contacted; when
\* IP detection fails the result is an error and the provider is not
\* contacted.
C19_Resolution ==
    \A c \in BagToSet(weatherCmds) : \A net \in Nets :
        LET run == fetchWeatherRun(c, net)
            manual == c.LocationMode = "manual" /\ c.Location # <<>>
        IN /\ UsesIP(run) <=> (c.LocationMode = "ip" \/ c.Location = <<>>)
           /\ manual => \A cl \in ProviderCalls(run) : cl.q = c.Location
           /\ (manual /\ CreateWeatherProviderErr(c.WeatherProvider,
                                                  c.WeatherAPIKey) = Nil)
                 => ProviderCalls(run) # {}
           /\ (UsesIP(run) /\ DetectLocationFromIP(net.ip).err # Nil) =>
                 /\ run.msg.Weather = Nil
                 /\ run.msg.Error # Nil
                 /\ ProviderCalls(run) = {}

C19_DetectionFailureStep ==
    \A c \in BagToSet(weatherCmds) : \A net \in Nets :
        (FetchReturns(c, net) /\ UsesIP(fetchWeatherRun(c, net))
            /\ DetectLocationFromIP(net.ip).err # Nil) =>
                /\ m'.stormyWeather = Nil
                /\ m'.weatherError # Nil

C19_LocationFromMode ==
    []C19_Resolution /\ [][C19_DetectionFailureStep]_vars

\* In ip mode with a location configured, the fetch went to the IP service
\* and its failure is what the model holds.
C19_Witness ==
    /\ m.config.LocationMode = "ip"
    /\ m.config.Location # <<>>
    /\ m.stormyWeather = Nil
    /\ m.weatherError = Some("failed to detect location")

\* Every field of cfg has a valid value.
ConfigValid(cfg) ==
    /\ cfg.WeatherProvider \in {ProviderWeatherAPI, ProviderOpenMeteo}
    /\ cfg.Units \in {"metric", "imperial"}
    /\ cfg.TimeFormat \in {"12", "24"}
    /\ cfg.LocationMode \in {"ip", "manual"}
    /\ cfg.RefreshInterval \in 1..60

\* C17: round trip.  When Save has written a valid configuration, reading
\* the config file back, under any value of the key in the environment,
\* gives the written configuration with the key of the environment.
C17_SaveStep ==
    (SavePressed(TRUE) /\ ConfigValid(m.config)) =>
        \A envKey \in StartEnvKeys :
            LET read == ReadConfig(configFile', envKey)
            IN /\ read.config = [m.config EXCEPT !.WeatherAPIKey = envKey]
               /\ read.file = configFile'

C18_ConfigValid == ConfigValid(m.config)

\* C20: the delay of a pending refresh timer is the configured refresh
\* interval.
C20_RefreshDelayConfigured ==
    refreshPending > 0 => refreshDelay = m.config.RefreshInterval

\* Every key the terminal can send that some handler distinguishes, and "a"
\* for the printable keys without a binding.
AllKeys ==
    SingleCharKeys \cup {"ctrl+c", "tab", "shift+tab", "up", "down", "enter",
                         "esc", "backspace"}

ViewModes == {ViewWeather, ViewMoon, ViewSolar, ViewSettings,
              ViewLocationInput, ViewAPIKeyInput}

\* The edit flags of mm agree with its view mode.
FlagsAgree(mm) ==
    /\ mm.isEditingLocation <=> (mm.viewMode = ViewLocationInput)
    /\ mm.isEditingAPIKey <=> (mm.viewMode = ViewAPIKeyInput)
    /\ ~(mm.isEditingLocation /\ mm.isEditingAPIKey)
    /\ mm.viewMode \in ViewModes

\* C21: in every reachable state the location-edit flag is set iff the view
\* mode is location-edit, the API-key-edit flag is set iff the view mode is
\* API-key-edit, the flags are never both set and the view mode is one of the
\* six defined modes; and whatever key is pressed next, the Model that Update
\* returns satisfies the same.
C21_FlagsAgreeWithMode ==
    /\ FlagsAgree(m)
    /\ \A k \in AllKeys : \A ok \in BOOLEAN : FlagsAgree(UpdateKey(m, k, ok).m)

\* The API-key editor is open with a character typed.
C21_Witness ==
    /\ m.viewMode = ViewAPIKeyInput
    /\ m.isEditingAPIKey
    /\ Len(m.apiKeyInput) = 1
    /\ m.apiKeyInput # m.config.WeatherAPIKey

\* The snapshot and the error of mm are not both set.
SlotsExclusive(mm) == mm.stormyWeather = Nil \/ mm.weatherError = Nil

\* C22: the weather snapshot and the weather error are never both set.
\* Processing a successful result stores its snapshot and clears the error,
\* processing an error result stores the error and clears the snapshot, and
\* a manual refresh clears both.
C22_ResultStep ==
    /\ WeatherMsg =>
          LET msg == lastWeatherMsg'[1]
          IN IF msg.Error # Nil
             THEN m'.weatherError = msg.Error /\ m'.stormyWeather = Nil
             ELSE /\ msg.Weather # Nil
                  /\ m'.stormyWeather = msg.Weather
                  /\ m'.weatherError = Nil
    /\ (~Editing /\ KeyMsg("r", TRUE)) =>
          m'.stormyWeather = Nil /\ m'.weatherError = Nil

C22_SnapshotXorError ==
    /\ []SlotsExclusive(m)
    /\ [][C22_ResultStep]_vars

\* An error result was processed on the Moon tab while another fetch is
\* still in flight.
C22_Witness ==
    /\ m.viewMode = ViewMoon
    /\ m.weatherError # Nil
    /\ m.stormyWeather = Nil
    /\ lastWeatherMsg # Nil
    /\ lastWeatherMsg[1].Error = m.weatherError
    /\ InFlight > 0

\* The configurations a fetch can have captured under Spec.
RefreshCaptures == {Captured(cfg) : cfg \in RefreshConfigs}

\* C23: every dispatched weather fetch produces exactly one result message,
\* carrying either a snapshot or an error, and that message is eventually
\* processed by Update, however many fetches overlap.  Whatever the services
\* answer, the message of a fetch in flight has exactly one of Weather and
\* Error set; a refresh dispatches a new fetch even when an identical one is
\* in flight; a fetch leaves flight only one at a time, by a WeatherMsg that
\* Update processes; and for every captured configuration, either its
\* results keep being processed or none of its fetches stays in flight.
C23_OneResultEach ==
    \A c \in BagToSet(weatherCmds) : \A net \in Nets :
        LET msg == fetchWeatherRun(c, net).msg
        IN (msg.Weather = Nil) # (msg.Error = Nil)

C23_FlightStep ==
    /\ \A c \in RefreshCaptures :
          \/ CopiesIn(c, weatherCmds') >= CopiesIn(c, weatherCmds)
          \/ /\ CopiesIn(c, weatherCmds') = CopiesIn(c, weatherCmds) - 1
             /\ InFlight' = InFlight - 1
             /\ lastWeatherMsg' # Nil
             /\ lastWeatherMsg'[1] \in WeatherMsgs(c)
             /\ m' = UpdateWeather(m, lastWeatherMsg'[1]).m
    /\ ((~Editing /\ KeyMsg("r", TRUE)) \/ RefreshMsg) =>
          CopiesIn(Captured(m.config), weatherCmds') =
              CopiesIn(Captured(m.config), weatherCmds) + 1

C23_EveryFetchAnswered ==
    /\ []C23_OneResultEach
    /\ [][C23_FlightStep]_vars
    /\ \A c \in RefreshCaptures :
          \/ []<><<DeliverWeather(c)>>_vars
          \/ []<>(CopiesIn(c, weatherCmds) = 0)

\* Two fetches made with the same configuration are in flight after the
\* result of an earlier one was processed.
C23_Witness ==
    /\ \E c \in RefreshCaptures : CopiesIn(c, weatherCmds) = 2
    /\ lastWeatherMsg # Nil
    /\ m.refreshing
    /\ m.viewMode = ViewSolar

\* Number of 1-second ticks pending: armed and not yet due, or due and not
\* yet delivered.
TicksPending == tickArmed + tickDue

\* C24: exactly one 1-second tick is pending at all times.  Init arms one;
\* processing a tick arms exactly one; no key, refresh tick, weather or moon
\* result arms or cancels one; and processing a tick changes nothing of the
\* Model but the status message (the clock and the solar data, which it also
\* assigns, are not part of the model).
C24_NoOtherTick ==
    /\ Count(UpdateTick(m).cmd, "tick") = 1
    /\ Count(UpdateRefresh(m).cmd, "tick") = 0
    /\ \A k \in AllKeys : \A ok \in BOOLEAN :
          Count(UpdateKey(m, k, ok).cmd, "tick") = 0
    /\ \A c \in BagToSet(weatherCmds) : \A msg \in WeatherMsgs(c) :
          Count(UpdateWeather(m, msg).cmd, "tick") = 0
    /\ \A msg \in MoonMsgs : Count(UpdateMoon(m, msg).cmd, "tick") = 0

C24_TickStep ==
    /\ TickMsg => m' = [m EXCEPT !.statusMsg = m'.statusMsg]
    /\ TicksPending' = TicksPending

C24_OneTickPending ==
    /\ [](TicksPending = 1)
    /\ []C24_NoOtherTick
    /\ [][C24_TickStep]_vars

\* In Settings a tick has cleared the status message and armed the next
\* tick.
C24_Witness ==
    /\ m.viewMode = ViewSettings
    /\ m.statusMsg = ""
    /\ m.sinceStatusSet > StatusWindow
    /\ tickArmed = 1
    /\ tickDue = 0

\* "Set Location" is selected in the Settings menu while the location comes
\* from IP detection.
SetLocationUnderIP ==
    /\ ~Editing
    /\ m.viewMode = ViewSettings
    /\ m.settingsCursor = 1
    /\ m.config.LocationMode = "ip"

\* C25: the location editor is open only in manual location mode, and
\* Enter on "Set Location" in IP mode leaves the view mode, the edit flag and
\* the configuration as they are and dispatches nothing.
C25_LocationEditOnlyManual ==
    /\ (m.viewMode = ViewLocationInput \/ m.isEditingLocation) =>
            m.config.LocationMode = "manual"
    /\ SetLocationUnderIP =>
          \A ok \in BOOLEAN :
              LET r == UpdateKey(m, "enter", ok)
              IN /\ r.m.viewMode = m.viewMode
                 /\ r.m.isEditingLocation = m.isEditingLocation
                 /\ r.m.config = m.config
                 /\ r.cmd = <<>>

\* The location mode was toggled to IP detection, its fetch has returned and
\* the cursor is on "Set Location".
C25_Witness ==
    /\ SetLocationUnderIP
    /\ m.statusMsg = "Location: IP Detection"
    /\ InFlight = 0
    /\ lastWeatherMsg # Nil

\* Every key the user can press in an editor.
EditorKeys == AllKeys \cup {NonASCIIKey}
\* The keys that produce one printable character.
PrintableKeys == SingleCharKeys \cup {NonASCIIKey}

\* The buffer of the editor that is open in mm.
EditBuffer(mm) ==
    IF mm.isEditingLocation THEN mm.locationInput ELSE mm.apiKeyInput
\* What Update returns for key k leaves mm as it is.
KeyIgnored(mm, k) == \A ok \in BOOLEAN : UpdateKey(mm, k, ok) = Result(mm, <<>>)

\* While an editor is open no key quits the program or changes the units,
\* the time format, the location mode or the weather data; Enter and Esc
\* return to Settings and every other key leaves the view mode and the edit
\* flags alone; ctrl+c is ignored, and so is Backspace on an empty buffer.
GlobalKeysDisabled ==
    Editing =>
        /\ \A k \in EditorKeys : \A ok \in BOOLEAN :
              LET r == UpdateKey(m, k, ok)
              IN /\ Count(r.cmd, "quit") = 0
                 /\ r.m.config.Units = m.config.Units
                 /\ r.m.config.TimeFormat = m.config.TimeFormat
                 /\ r.m.config.LocationMode = m.config.LocationMode
                 /\ r.m.stormyWeather = m.stormyWeather
                 /\ r.m.weatherError = m.weatherError
                 /\ IF k \in {"enter", "esc"}
                    THEN /\ r.m.viewMode = ViewSettings
                         /\ ~r.m.isEditingLocation /\ ~r.m.isEditingAPIKey
                    ELSE /\ r.m.viewMode = m.viewMode
                         /\ r.m.isEditingLocation = m.isEditingLocation
                         /\ r.m.isEditingAPIKey = m.isEditingAPIKey
        /\ KeyIgnored(m, "ctrl+c")
        /\ EditBuffer(m) = <<>> => KeyIgnored(m, "backspace")

\* While an editor is open every key that produces one printable character
\* is appended to its buffer.
PrintableKeysAppended ==
    Editing =>
        \A k \in PrintableKeys : \A ok \in BOOLEAN :
            EditBuffer(UpdateKey(m, k, ok).m) = Append(EditBuffer(m), k)

\* C26: while an edit sub-state is active the global keys are disabled and
\* every single-character key is appended to the buffer.
C26_EditorCapturesKeys == GlobalKeysDisabled /\ PrintableKeysAppended

\* C27: whenever the refreshing flag is set a weather fetch is in flight,
\* and the flag is eventually cleared.  Only R outside the editors sets it,
\* dispatching a fetch in the same step; every weather result processed
\* clears it, whichever fetch it answers, and nothing else does.
C27_FlagStep ==
    /\ (~m.refreshing /\ m'.refreshing) =>
          /\ ~Editing
          /\ \E ok \in BOOLEAN : KeyMsg("r", ok)
          /\ InFlight' = InFlight + 1
    /\ WeatherMsg => ~m'.refreshing
    /\ (m.refreshing /\ ~m'.refreshing) => WeatherMsg

C27_RefreshingHasFetch ==
    /\ [](m.refreshing => InFlight > 0)
    /\ [][C27_FlagStep]_vars
    /\ m.refreshing ~> ~m.refreshing

\* R was pressed before the fetch of Init returned: two fetches are in
\* flight and the flag is set.
C27_Witness ==
    /\ m.refreshing
    /\ InFlight = 2
    /\ lastWeatherMsg = Nil
    /\ m.viewMode = ViewWeather

\* C28: every condition the weather-code table of the keyless provider
\* produces for a known code (every condition but "Unknown") has an icon of
\* its own: the icon selected for a snapshot with such a condition is never
\* the Unknown icon, by day or by night.
C28_KnownConditionHasIcon ==
    (/\ m.stormyWeather # Nil
     /\ m.stormyWeather[1].Condition # "Unknown") =>
        GetWeatherIcon(m.stormyWeather[1]) # "Unknown"

\* The phase that follows phase name in the cycle of 8 phases.
FollowingPhase(name) ==
    LET i == CHOOSE j \in 1..Len(phases) : phases[j].name = name
    IN phases[(i % Len(phases)) + 1].name

\* C29: for moon data produced by the local fallback at any age of the
\* cycle, the next phase stored by the moon panel is the phase that follows
\* the current phase in the cycle of 8 phases, and so is never the current
\* phase.
C29_FallbackStep ==
    \A age \in CycleAges : \A outcome \in MoonFailures :
        DeliverMoon(fetchMoonDataMsg(outcome, age)) =>
            /\ m'.moon.MoonName = "Calculated"
            /\ m'.moon.NextPhase # m'.moon.Phase
            /\ m'.moon.NextPhase = FollowingPhase(m'.moon.Phase)

C29_NextPhaseFollowsCurrent == [][C29_FallbackStep]_vars

\* What ReadConfig makes of the config file as it is now.
ConfigOnFile == ReadConfig(configFile, envFile[1]).config

\* C30: started without the -units and -time flags, the state machine has
\* the units and the time format read from the config file (until the user
\* changes them with U or T, which SpecDefaults leaves out).
C30_UnitsFromFile ==
    /\ m.config.Units = ConfigOnFile.Units
    /\ m.config.TimeFormat = ConfigOnFile.TimeFormat

====
